---- MODULE Spec2Model ----
(***************************************************************************)
(* Model of snakesim/snake_driver.py: the SnakeDriver Webots/ROS 2 plugin. *)
(*                                                                         *)
(* Numbers.  The code works on floating point reals; the model works on    *)
(* exact rationals written as integers over fixed units:                   *)
(*   - a joint angle is an integer number of ticks, one tick being         *)
(*     1/Den microradian;                                                  *)
(*   - a task velocity (dx) and a posture velocity (q0dot) are integers    *)
(*     (1e-3 units per second), a time step is an integer of milliseconds, *)
(*     so velocity * dt is an integer number of microradians;              *)
(*   - the pseudo-inverse of J is carried as Den * pinv(J), an integer     *)
(*     matrix, Den being the common denominator of the pseudo-inverses of  *)
(*     the Jacobians the model draws.                                      *)
(* A quaternion component is an IEEE value: finite (in quarters), NaN or   *)
(* an infinity.                                                            *)
(***************************************************************************)
EXTENDS Integers, Sequences, FiniteSets, TLC

N_JOINTS == 7
\* np.deg2rad(120) = 2.0943951... rad, in microradians
RAD_120 == 2094395
\* dt = 0.032 s, in milliseconds
DT_DEFAULT == 32
\* queue depth of the two subscriptions
QUEUE_DEPTH == 10
\* self.delay_simulation(1)
SETTLE_SECONDS == 1
\* self.__robot.getBasicTimeStep(), milliseconds, a property of the simulated world
BasicTimeStep == 32
\* arrivals are held back once this many inbound items wait to be dispatched
MaxPending == 2

Joints == 1..N_JOINTS
Task == 1..3

----------------------------------------------------------------------------
\* Vectors are tuples; a matrix is a tuple of rows.

\* np.array: the components are computed once, when the array is built
array(v) == v \o <<>>

RECURSIVE SumTo(_, _)
SumTo(f, n) == IF n = 0 THEN 0 ELSE f[n] + SumTo(f, n - 1)

Dot(a, b) == SumTo(array([k \in 1..Len(a) |-> a[k] * b[k]]), Len(a))

\* m @ v
MatVec(m, v) == array([r \in 1..Len(m) |-> Dot(m[r], v)])

\* column c of a matrix
Column(m, c) == array([k \in 1..Len(m) |-> m[k][c]])

\* a @ b, a of shape n x k and b of shape k x m
MatMul(a, b) ==
    array([r \in 1..Len(a) |->
        array([c \in 1..Len(b[1]) |-> Dot(a[r], Column(b, c))])])

ZeroVec(n) == array([k \in 1..n |-> 0])

Max(a, b) == IF a >= b THEN a ELSE b
Min(a, b) == IF a <= b THEN a ELSE b

----------------------------------------------------------------------------
\* The Jacobians the kinematic model may return: the zero matrix, a matrix of
\* full row rank, and matrices of rank 2 and 1.  Their rows are pairwise
\* orthogonal, which is what makes the pseudo-inverse below exact.

JZero == << ZeroVec(N_JOINTS), ZeroVec(N_JOINTS), ZeroVec(N_JOINTS) >>
JFull == << <<1, 0, 0, 0, 0, 0, 0>>,
            <<0, 1, 1, 0, 0, 0, 0>>,
            <<0, 0, 0, 1, -1, 1, 1>> >>
JRank2 == << <<1, 1, 0, 0, 0, 0, 0>>,
             <<1, -1, 0, 0, 0, 0, 0>>,
             ZeroVec(N_JOINTS) >>
JRank1 == << ZeroVec(N_JOINTS),
             <<0, 0, 2, 0, 0, 0, 0>>,
             ZeroVec(N_JOINTS) >>
JSet == {JZero, JFull, JRank2, JRank1}

RowNormSq(J, r) == Dot(J[r], J[r])

RECURSIVE Gcd(_, _)
Gcd(a, b) == IF b = 0 THEN a ELSE Gcd(b, a % b)

RECURSIVE LcmOf(_)
LcmOf(S) ==
    IF S = {} THEN 1
    ELSE LET n == CHOOSE k \in S : TRUE
             rest == LcmOf(S \ {n})
         IN  (n * rest) \div Gcd(n, rest)

\* the common denominator of the pseudo-inverses of JSet
Den == LcmOf({RowNormSq(J, r) : J \in JSet, r \in Task} \ {0})

\* the actuation limit, in ticks
Limit == RAD_120 * Den

\* Den * np.linalg.pinv(J), of shape N x 3.  For a matrix with pairwise
\* orthogonal rows the Moore-Penrose inverse has column r equal to
\* row r / |row r|^2, and a zero column for a zero row.
pinv_scaled(J, norms) ==
    array([c \in Joints |->
        array([r \in Task |->
            IF norms[r] = 0 THEN 0 ELSE J[r][c] * (Den \div norms[r])])])

pinv(J) == pinv_scaled(J, array([r \in Task |-> RowNormSq(J, r)]))

\* np.eye(n), times Den
eye(n) == array([r \in 1..n |-> array([c \in 1..n |-> IF r = c THEN Den ELSE 0])])

\* a - b for two matrices of one shape
MatSub(a, b) ==
    array([r \in 1..Len(a) |-> array([c \in 1..Len(a[r]) |-> a[r][c] - b[r][c]])])

\* a clip that forgets the lower bound
clip_upper(x, lo, hi) == array([k \in 1..Len(x) |-> Min(x[k], hi)])

\* np.clip(x, lo, hi) = minimum(maximum(x, lo), hi), componentwise
clip(x, lo, hi) == array([k \in 1..Len(x) |-> Min(Max(x[k], lo), hi)])

\* a + b for two vectors of one length
VecAdd(a, b) == array([k \in 1..Len(a) |-> a[k] + b[k]])

\* the projector with its sign flipped: JT @ J - np.eye(N_JOINTS)
null_projector_flipped(JT, J) == MatSub(MatMul(JT, J), eye(N_JOINTS))

\* np.eye(N_JOINTS) - JT @ J of line 146, times Den, JT being Den * pinv(J)
null_projector(JT, J) == MatSub(eye(N_JOINTS), MatMul(JT, J))

\* line 142 and the projector of line 146 depend on J alone: they are
\* tabulated over the Jacobians the kinematic model returns
PinvOf == [J \in JSet |-> pinv(J)]
ProjectorOf == [J \in JSet |-> null_projector(pinv(J), J)]

\* the transpose of J taken for its pseudo-inverse
joint_velocity_transpose(J, dx, q0dotv) ==
    VecAdd(MatVec(array([c \in Joints |-> array([r \in Task |-> Den * J[r][c]])]), dx),
           MatVec(ProjectorOf[J], q0dotv))

\* Den * dq of line 146: (JT @ dx) + (eye(N) - JT @ J) @ q0dot
joint_velocity(J, dx, q0dotv) ==
    VecAdd(MatVec(PinvOf[J], dx), MatVec(ProjectorOf[J], q0dotv))

\* the time step applied to the sum: (q + dq.flatten()) * dt
integrate_scaled_sum(q, dq, dt) == array([k \in Joints |-> (q[k] + dq[k]) * dt])

\* q + dq.flatten() * dt, in ticks
integrate(q, dq, dt) == array([k \in Joints |-> q[k] + dq[k] * dt])

\* the resolver without its saturation
update_joint_position_unclamped(q, dx, J, q0dotv, dt) ==
    integrate(q, joint_velocity(J, dx, q0dotv), dt)

\* SnakeDriver.update_joint_position with J = self.robot.jacobian(q) and
\* q0dotv = self.robot.q0dot(q, k0=k0) already obtained from the kinematic model
update_joint_position(q, dx, J, q0dotv, dt) ==
    clip(integrate(q, joint_velocity(J, dx, q0dotv), dt), -Limit, Limit)

----------------------------------------------------------------------------
\* The kinematic model (class Robot): two pure functions of the joint
\* configuration of which only the contract is known.  jacobian picks one of
\* the matrices of JSet by the configuration; q0dot is the gain times the
\* gradient that pulls each joint back to the neutral pose (in 1e-3 rad/s),
\* the zero vector when the gain is 0.  It is taken to be a column of N
\* entries, the shape with which line 146 yields N joint velocities.

JTable == << JFull, JRank2, JRank1, JZero >>

Positive(q) == Cardinality({k \in Joints : q[k] > 0})

jacobian(q) == JTable[(Positive(q) % Len(JTable)) + 1]

q0dot(q, k0) == array([k \in Joints |-> k0 * (0 - (q[k] \div (1000 * Den)))])

----------------------------------------------------------------------------
\* IEEE values of the orientation: finite (in quarters), NaN, +inf, -inf.

Fin(v) == [k |-> "fin", v |-> v]
NaN == [k |-> "nan", v |-> 0]
Inf(sign) == [k |-> IF sign > 0 THEN "+inf" ELSE "-inf", v |-> 0]

\* np.sqrt(s) / 2.0 for an integer s, in quarters: a negative s gives NaN (numpy
\* warns, it does not raise).  Exact on the perfect squares of RotSet.
sqrt_half(s) ==
    IF s < 0 THEN NaN
    ELSE Fin(2 * (CHOOSE k \in 0..s : k * k = s))

\* num / (4 * w) for an integer num and w in quarters, in quarters.  numpy
\* float64 division by zero gives NaN (0/0) or an infinity, never an exception.
div_4w(num, w) ==
    IF w.k = "nan" THEN NaN
    ELSE IF w.v = 0 THEN (IF num = 0 THEN NaN ELSE Inf(num))
    ELSE Fin((4 * num) \div w.v)

\* the divisions done on Python floats: a zero divisor raises
quaternion_of_checked(r, q_w) ==
    [value |-> << div_4w(r[3][2] - r[2][3], q_w),
                  div_4w(r[1][3] - r[3][1], q_w),
                  div_4w(r[2][1] - r[1][2], q_w),
                  q_w >>,
     exc |-> IF q_w.k = "fin" /\ q_w.v = 0 THEN "ZeroDivisionError" ELSE "none"]

\* lines 68-72 of rotation_matrix_to_quaternion, q_w being known; exc is the
\* exception raised
quaternion_of(r, q_w) ==
    [value |-> << div_4w(r[3][2] - r[2][3], q_w),
                  div_4w(r[1][3] - r[3][1], q_w),
                  div_4w(r[2][1] - r[1][2], q_w),
                  q_w >>,
     exc |-> "none"]

\* SnakeDriver.rotation_matrix_to_quaternion
rotation_matrix_to_quaternion(r) ==
    quaternion_of(r, sqrt_half(1 + r[1][1] + r[2][2] + r[3][3]))

\* np.array(flat).reshape(4, 4)
reshape44(flat) == [r \in 1..4 |-> [c \in 1..4 |-> flat[4 * (r - 1) + c]]]

\* eff_pose[:-1, :-1]
rotation_part(m) == [r \in 1..3 |-> [c \in 1..3 |-> m[r][c]]]

\* lines 81-92 of get_end_effector_pose: the message built from the matrix
\* and the quaternion
pose_msg(eff_pose, orientation) ==
    [position |-> <<eff_pose[1][4], eff_pose[2][4], eff_pose[3][4]>>,
     orientation |-> orientation.value,
     exc |-> orientation.exc]

pose_of_matrix(eff_pose) ==
    pose_msg(eff_pose, rotation_matrix_to_quaternion(rotation_part(eff_pose)))

\* SnakeDriver.get_end_effector_pose applied to the value of end_eff.getPose()
get_end_effector_pose(flat) == pose_of_matrix(reshape44(flat))

\* The poses the simulator reports: the identity, a rotation by 120 degrees
\* about (1,1,1), and rotations by 180 degrees (trace -1) about x and about
\* the bisector of x and y.
PoseOf(R, p) ==
    << R[1][1], R[1][2], R[1][3], p[1],
       R[2][1], R[2][2], R[2][3], p[2],
       R[3][1], R[3][2], R[3][3], p[3],
       0, 0, 0, 1 >>
RotIdentity == << <<1, 0, 0>>, <<0, 1, 0>>, <<0, 0, 1>> >>
RotCycle == << <<0, 0, 1>>, <<1, 0, 0>>, <<0, 1, 0>> >>
RotHalfTurnX == << <<1, 0, 0>>, <<0, -1, 0>>, <<0, 0, -1>> >>
RotHalfTurnXY == << <<0, 1, 0>>, <<1, 0, 0>>, <<0, 0, -1>> >>
RotSet == {RotIdentity, RotCycle, RotHalfTurnX, RotHalfTurnXY}

Trace(flat) == flat[1] + flat[6] + flat[11]

----------------------------------------------------------------------------
\* The node's state.

VARIABLES
    target_twist,     \* self.target_twist: the Twist last handed to twist_callback
    gain,             \* self.gain
    twist_queue,      \* target_twist messages received, not yet dispatched
    gain_queue,       \* target_gain messages received, not yet dispatched
    service_queue,    \* init_joint_state requests received, not yet dispatched
    motors,           \* the target position of each motor (last setPosition)
    last_twist_msg,   \* the most recently received target_twist message
    last_gain_msg,    \* the most recently received target_gain value
    cycle             \* what the last call (of step, or of the resolver) did

vars == << target_twist, gain, twist_queue, gain_queue, service_queue, motors,
           last_twist_msg, last_gain_msg, cycle >>

\* Twist(): all fields 0.0
TwistZero == [linear |-> <<0, 0, 0>>, angular |-> <<0, 0, 0>>]
TwistMsgs == { [linear |-> <<1000, 0, -500>>, angular |-> <<0, 0, 0>>],
               [linear |-> <<-2000, 700, 0>>, angular |-> <<0, 0, 100>>] }
GainMsgs == {2}

\* sensor readings, in ticks: the home pose, a pose close to the limits, and a
\* pose outside the actuation range (the initialization request can put the
\* arm there, its angles are not clamped)
QHome == ZeroVec(N_JOINTS)
QNear == << Limit - 50000, 50000 - Limit, 0, -50000, 0, 20000 - Limit, -Limit >>
QBent == << 400000, -300000, 0, 250000, 0, -Limit + 1, 0 >>
QOut == << Limit + 8000, 0, -Limit - 8000, 12345, Limit, -Limit, 0 >>
QSet == {QHome, QNear, QBent, QOut}

\* what the simulator reports in one cycle: the sensor readings and the pose of
\* the end effector in that configuration
Reading(q, R) == [q |-> q, flat |-> PoseOf(R, <<120, -45, 800>>)]
Readings == { Reading(QHome, RotIdentity), Reading(QNear, RotCycle),
              Reading(QBent, RotHalfTurnX), Reading(QOut, RotHalfTurnXY),
              Reading(QOut, RotCycle) }


\* initialization requests of N - 1, N and N + 1 angles; the first angles are
\* inside the actuation range, the last ones outside it
ReqSet == { array([i \in 1..M |-> Limit - 200000 + i * 40000]) :
                M \in {N_JOINTS - 1, N_JOINTS, N_JOINTS + 1} }

\* one call on a device or on the node, in the order the code makes them
Ev(op, i, v, by) == [op |-> op, i |-> i, v |-> v, by |-> by]

NoPose == [position |-> <<0, 0, 0>>, orientation |-> <<NaN, NaN, NaN, NaN>>]

\* the record of a call: its inputs, the resolver's arguments and output, the
\* device calls in order, the exception that ended it
NoCycle ==
    [ran |-> FALSE, item |-> "none", request |-> <<>>,
     recv_twist |-> TwistZero, recv_gain |-> 0,
     resolved |-> FALSE, q |-> QHome, dx |-> <<0, 0, 0>>, k0 |-> 0,
     J |-> JZero, q0dot |-> ZeroVec(N_JOINTS), dt |-> DT_DEFAULT,
     out |-> ZeroVec(N_JOINTS),
     log |-> <<>>, exc |-> "none", success |-> FALSE,
     published |-> FALSE, pose |-> NoPose, trace |-> 3]

Init ==
    /\ target_twist = TwistZero
    /\ gain = 0
    /\ twist_queue = <<>>
    /\ gain_queue = <<>>
    /\ service_queue = <<>>
    /\ motors = ZeroVec(N_JOINTS)
    /\ last_twist_msg = TwistZero
    /\ last_gain_msg = 0
    /\ cycle = NoCycle

----------------------------------------------------------------------------
\* Inbound messages.  A subscription keeps the last QUEUE_DEPTH messages.

Enqueue(queue, msg) ==
    IF Len(queue) >= QUEUE_DEPTH THEN Append(Tail(queue), msg)
    ELSE Append(queue, msg)

Pending == Len(twist_queue) + Len(gain_queue) + Len(service_queue)

TwistArrives ==
    /\ Pending < MaxPending
    /\ \E msg \in TwistMsgs :
        /\ twist_queue' = Enqueue(twist_queue, msg)
        /\ last_twist_msg' = msg
    /\ UNCHANGED << target_twist, gain, gain_queue, service_queue, motors,
                    last_gain_msg, cycle >>

GainArrives ==
    /\ Pending < MaxPending
    /\ \E data \in GainMsgs :
        /\ gain_queue' = Enqueue(gain_queue, data)
        /\ last_gain_msg' = data
    /\ UNCHANGED << target_twist, gain, twist_queue, service_queue, motors,
                    last_twist_msg, cycle >>

InitRequested ==
    /\ Pending < MaxPending
    /\ \E request \in ReqSet :
        service_queue' = Append(service_queue, request)
    /\ UNCHANGED << target_twist, gain, twist_queue, gain_queue, motors,
                    last_twist_msg, last_gain_msg, cycle >>

----------------------------------------------------------------------------
\* The handlers.

twist_callback(msg) == msg

gain_callback(data) == data

\* a loop over range(N_JOINTS - 1): the last motor is never commanded
set_positions_short(m, values, by) ==
    [motors |-> [i \in Joints |->
                    IF i <= Min(Len(values), N_JOINTS - 1) THEN values[i] ELSE m[i]],
     log |-> [i \in 1..Min(Len(values), N_JOINTS - 1) |->
                    Ev("setPosition", i, values[i], by)],
     exc |-> IF Len(values) > N_JOINTS THEN "IndexError" ELSE "none"]

\* a loop over zip(motors, values): angles past the last motor are ignored
set_positions_truncating(m, values, by) ==
    [motors |-> [i \in Joints |->
                    IF i <= Min(Len(values), N_JOINTS) THEN values[i] ELSE m[i]],
     log |-> [i \in 1..Min(Len(values), N_JOINTS) |->
                    Ev("setPosition", i, values[i], by)],
     exc |-> "none"]

\* for i, value in enumerate(values): self.__motors[i].setPosition(value)
\* An index past the last motor raises IndexError, after the motors before it
\* were commanded.
set_positions(m, values, by) ==
    LET n == Min(Len(values), N_JOINTS)
    IN  [motors |-> [i \in Joints |-> IF i <= n THEN values[i] ELSE m[i]],
         log |-> [i \in 1..n |-> Ev("setPosition", i, values[i], by)],
         exc |-> IF Len(values) > N_JOINTS THEN "IndexError" ELSE "none"]

\* SnakeDriver.delay_simulation: n_iter calls of robot.step()
delay_simulation(seconds) ==
    LET n_iter == (1000 * seconds) \div BasicTimeStep
    IN  [k \in 1..n_iter |-> Ev("robot.step", k, BasicTimeStep, "init")]

\* lines 109-113 of init_joint_state_callback, cmd being the outcome of its
\* loop over the request: an exception of the loop ends the handler
settle_and_report(cmd) ==
    IF cmd.exc # "none"
    THEN [motors |-> cmd.motors, log |-> cmd.log, exc |-> cmd.exc,
          success |-> FALSE]
    ELSE [motors |-> cmd.motors,
          log |-> cmd.log \o delay_simulation(SETTLE_SECONDS)
                    \o << Ev("success", 0, 1, "init") >>,
          exc |-> "none", success |-> TRUE]

\* a handler that clamps the requested angles to the actuation range
init_joint_state_callback_clamped(request, m) ==
    settle_and_report(set_positions(m, clip(request, -Limit, Limit), "init"))

\* SnakeDriver.init_joint_state_callback
init_joint_state_callback(request, m) ==
    settle_and_report(set_positions(m, request, "init"))

\* what rclpy.spin_once(node, timeout_sec=0) can dispatch: the oldest item of
\* one entity that has something waiting, or nothing
ReadyItems ==
    LET ready == (IF twist_queue # <<>> THEN {"twist"} ELSE {})
                 \cup (IF gain_queue # <<>> THEN {"gain"} ELSE {})
                 \cup (IF service_queue # <<>> THEN {"service"} ELSE {})
    IN  IF ready = {} THEN {"none"} ELSE ready

\* the handler spin_once runs for the item it dispatches
spin_once(item) ==
    LET idle == [motors |-> motors, log |-> <<>>, exc |-> "none", success |-> FALSE]
    IN  [twist |-> IF item = "twist" THEN twist_callback(Head(twist_queue))
                   ELSE target_twist,
         gain |-> IF item = "gain" THEN gain_callback(Head(gain_queue)) ELSE gain,
         twist_queue |-> IF item = "twist" THEN Tail(twist_queue) ELSE twist_queue,
         gain_queue |-> IF item = "gain" THEN Tail(gain_queue) ELSE gain_queue,
         service_queue |-> IF item = "service" THEN Tail(service_queue)
                           ELSE service_queue,
         request |-> IF item = "service" THEN Head(service_queue) ELSE <<>>,
         handler |-> IF item = "service"
                     THEN init_joint_state_callback(Head(service_queue), motors)
                     ELSE idle]

\* lines 134-137 of step: the motors are commanded with the resolver's output,
\* then the pose is published
command_and_publish(base, q, dx, k0, J, q0dotv, target, cmd, pose, flat) ==
    /\ motors' = cmd.motors
    /\ cycle' =
        [base EXCEPT
            !.resolved = TRUE, !.q = q, !.dx = dx, !.k0 = k0, !.J = J,
            !.q0dot = q0dotv, !.out = target,
            !.log = base.log \o cmd.log \o
                    (IF pose.exc = "none" THEN << Ev("publish", 0, 0, "step") >>
                     ELSE <<>>),
            !.exc = pose.exc,
            !.published = (pose.exc = "none"),
            !.pose = IF pose.exc = "none"
                     THEN [position |-> pose.position,
                           orientation |-> pose.orientation]
                     ELSE NoPose,
            !.trace = Trace(flat)]

\* lines 130-137 of step
resolve_and_command(base, m, q, dx, k0, J, q0dotv, target, flat) ==
    command_and_publish(base, q, dx, k0, J, q0dotv, target,
                        set_positions(m, target, "step"),
                        get_end_effector_pose(flat), flat)

\* lines 118-137 of step, after spin_once dispatched sp
control(sp, base, q, flat) ==
    /\ target_twist' = sp.twist
    /\ gain' = sp.gain
    /\ twist_queue' = sp.twist_queue
    /\ gain_queue' = sp.gain_queue
    /\ service_queue' = sp.service_queue
    /\ UNCHANGED << last_twist_msg, last_gain_msg >>
    /\ IF sp.handler.exc # "none"
       THEN \* the exception leaves spin_once and step
            /\ motors' = sp.handler.motors
            /\ cycle' = base
       ELSE resolve_and_command(
                base, sp.handler.motors, q, sp.twist.linear, sp.gain,
                jacobian(q), q0dot(q, sp.gain),
                update_joint_position(q, sp.twist.linear, jacobian(q),
                                      q0dot(q, sp.gain), DT_DEFAULT),
                flat)

\* the record of a cycle, before the resolver ran
cycle_base(item, sp) ==
    [NoCycle EXCEPT !.ran = TRUE, !.item = item,
                    !.request = sp.request,
                    !.recv_twist = last_twist_msg,
                    !.recv_gain = last_gain_msg,
                    !.log = sp.handler.log,
                    !.exc = sp.handler.exc,
                    !.success = sp.handler.success]

dispatch_and_control(item, sp, q, flat) ==
    control(sp, cycle_base(item, sp), q, flat)

\* SnakeDriver.step: one control cycle.  now.q is what the position sensors
\* read, now.flat what end_eff.getPose() returns.
Step ==
    \E item \in ReadyItems, now \in Readings :
        dispatch_and_control(item, spin_once(item), now.q, now.flat)

Next == TwistArrives \/ GainArrives \/ InitRequested \/ Step

Spec == Init /\ [][Next]_vars

----------------------------------------------------------------------------
\* The resolver alone, over arbitrary arguments: any configuration whose
\* components are below, inside and at the edge of the actuation range, any
\* Jacobian of JSet, any task velocity, any posture velocity (zero when the
\* gain is 0), and two time steps.

QVals == {-Limit - 8000, 0, Limit - 100000}
QArgs == {array(<<a, b, c, d, c, b, a>>) : a \in QVals, b \in QVals, c \in QVals, d \in QVals}
            \cup QSet
DxArgs == {<<0, 0, 0>>} \cup {msg.linear : msg \in TwistMsgs}
Q0Args == { <<500, -500, 250, 0, 0, -250, 1000>>,
            ZeroVec(N_JOINTS),
            <<0, 0, 3000, 300, 300, 0, 0>> }
DtArgs == {DT_DEFAULT, 16}

\* what the kinematic model may return for q0dot: anything, but the zero
\* vector when the gain is 0
posture_velocities(q, k0) ==
    {q0dot(q, k0)} \cup (IF k0 = 0 THEN {} ELSE Q0Args)

ResolverInit ==
    /\ target_twist = TwistZero
    /\ gain = 0
    /\ twist_queue = <<>>
    /\ gain_queue = <<>>
    /\ service_queue = <<>>
    /\ motors = ZeroVec(N_JOINTS)
    /\ last_twist_msg = TwistZero
    /\ last_gain_msg = 0
    /\ \E q \in QArgs, dx \in DxArgs, k0 \in {0} \cup GainMsgs, J \in JSet,
          dt \in DtArgs :
        \E q0dotv \in posture_velocities(q, k0) :
            cycle = [NoCycle EXCEPT !.q = q, !.dx = dx, !.k0 = k0, !.J = J,
                                    !.q0dot = q0dotv, !.dt = dt]

Resolve ==
    /\ ~cycle.ran
    /\ ~cycle.resolved
    /\ cycle' = [cycle EXCEPT
                    !.resolved = TRUE,
                    !.out = update_joint_position(cycle.q, cycle.dx, cycle.J,
                                                  cycle.q0dot, cycle.dt)]
    /\ UNCHANGED << target_twist, gain, twist_queue, gain_queue, service_queue,
                    motors, last_twist_msg, last_gain_msg >>

SpecResolver == ResolverInit /\ [][Resolve]_vars

----------------------------------------------------------------------------
\* Properties.

Saturate(x) == IF x > Limit THEN Limit ELSE IF x < -Limit THEN -Limit ELSE x

InRange(v) == \A k \in 1..Len(v) : -Limit <= v[k] /\ v[k] <= Limit

\* the indices of the log at which motor i is commanded by `by`
Commands(i, by) ==
    {n \in 1..Len(cycle.log) :
        /\ cycle.log[n].op = "setPosition"
        /\ cycle.log[n].i = i
        /\ cycle.log[n].by = by}

\* the indices of the log at which `op` happens
Happens(op) == {n \in 1..Len(cycle.log) : cycle.log[n].op = op}

\* q + dq * dt of the recorded call, before the saturation
Candidate ==
    integrate(cycle.q, joint_velocity(cycle.J, cycle.dx, cycle.q0dot), cycle.dt)

\* the number of robot.step() calls of the settle wait
SettleSteps == (1000 * SETTLE_SECONDS) \div BasicTimeStep

\* C1: whatever the cycles before it, the vector the resolver returns in a
\* cycle has N components, each within [-2*pi/3, 2*pi/3], and so has every
\* position the cyclic step commands.
C1_OutputWithinRange ==
    cycle.resolved =>
        /\ Len(cycle.out) = N_JOINTS
        /\ InRange(cycle.out)
        /\ \A n \in 1..Len(cycle.log) :
            (cycle.log[n].op = "setPosition" /\ cycle.log[n].by = "step")
                => (-Limit <= cycle.log[n].v /\ cycle.log[n].v <= Limit)

\* a cycle whose readings are within range and in which the integration step
\* leaves the range upwards, so that the commanded value is the limit
C1_Witness ==
    /\ cycle.ran /\ cycle.resolved
    /\ InRange(cycle.q)
    /\ \E k \in Joints :
        /\ cycle.q[k] < Limit
        /\ Candidate[k] > Limit
        /\ cycle.out[k] = Limit
        /\ motors[k] = Limit

\* C2 as stated: with dx = 0, k0 = 0 and q0dot = 0 the resolver returns exactly
\* q, for any q.
C2_ZeroCommandReturnsQ ==
    (/\ cycle.resolved
     /\ cycle.dx = <<0, 0, 0>>
     /\ cycle.k0 = 0
     /\ cycle.q0dot = ZeroVec(N_JOINTS))
        => cycle.out = cycle.q

\* C2 amended: with dx = 0, k0 = 0 and q0dot = 0 the resolver returns q clamped
\* componentwise to the actuation range, hence exactly q when q is within it.
C2_ZeroCommandReturnsClampedQ ==
    (/\ cycle.resolved
     /\ cycle.dx = <<0, 0, 0>>
     /\ cycle.k0 = 0
     /\ cycle.q0dot = ZeroVec(N_JOINTS))
        => /\ \A k \in Joints : cycle.out[k] = Saturate(cycle.q[k])
           /\ InRange(cycle.q) => cycle.out = cycle.q

\* the zero command resolved on a configuration within range, away from the
\* home pose, with a Jacobian of full row rank
C2_Witness ==
    /\ cycle.resolved
    /\ cycle.dx = <<0, 0, 0>> /\ cycle.k0 = 0 /\ cycle.q0dot = ZeroVec(N_JOINTS)
    /\ cycle.J = JFull
    /\ InRange(cycle.q) /\ cycle.q # QHome
    /\ cycle.out = cycle.q

\* C3 as stated: the dx and k0 a cycle passes to the resolver are those of the
\* velocity message and of the gain message most recently received when the
\* cycle started.
C3_LastReceivedWins ==
    (cycle.ran /\ cycle.resolved) =>
        /\ cycle.dx = cycle.recv_twist.linear
        /\ cycle.k0 = cycle.recv_gain

\* C4 as stated: in every control cycle each joint is commanded exactly once,
\* with its component of the resolver's output of that cycle.
C4_EachJointOncePerCycle ==
    cycle.ran =>
        /\ cycle.resolved
        /\ \A i \in Joints :
            /\ Cardinality(Commands(i, "step") \cup Commands(i, "init")) = 1
            /\ \A n \in Commands(i, "step") \cup Commands(i, "init") :
                cycle.log[n].v = cycle.out[i]

\* C4 amended: in a control cycle that services no initialization request each
\* joint is commanded exactly once, with its component of the resolver's
\* output computed in that cycle from the readings of that cycle; in a cycle
\* that services one, the handler's own commands come first and, when the
\* handler returns normally, the step then commands each joint exactly once
\* with the resolver's output.
C4_StepCommandsEachJointOnce ==
    (cycle.ran /\ cycle.exc # "IndexError") =>
        /\ cycle.resolved
        /\ cycle.out = update_joint_position(cycle.q, cycle.dx, cycle.J,
                                             cycle.q0dot, DT_DEFAULT)
        /\ cycle.q \in QSet /\ cycle.J = jacobian(cycle.q)
        /\ \A i \in Joints :
            /\ Cardinality(Commands(i, "step")) = 1
            /\ \A n \in Commands(i, "step") :
                /\ cycle.log[n].v = cycle.out[i]
                /\ \A k \in Commands(i, "init") : k < n
            /\ motors[i] = cycle.out[i]
            /\ cycle.item # "service" => Commands(i, "init") = {}

\* a cycle that serviced an initialization request and then commanded a joint
\* with a resolver output that differs from the requested angle
C4_Witness ==
    /\ cycle.ran /\ cycle.resolved /\ cycle.item = "service"
    /\ \E i \in Joints :
        /\ Cardinality(Commands(i, "init")) = 1
        /\ Cardinality(Commands(i, "step")) = 1
        /\ cycle.request[i] # cycle.out[i]

\* C5: a request of N angles makes the handler command motor i with the i-th
\* angle as given (not clamped, the resolver not involved), then step the
\* simulation for the settle wait, then set success; no resolver output reaches
\* a motor before success is set.
C5_InitCommandsThenSettlesThenSucceeds ==
    (cycle.ran /\ cycle.item = "service" /\ Len(cycle.request) = N_JOINTS) =>
        /\ cycle.success
        /\ Len(cycle.log) >= N_JOINTS + SettleSteps + 1
        /\ \A i \in Joints :
            cycle.log[i] = Ev("setPosition", i, cycle.request[i], "init")
        /\ \A k \in 1..SettleSteps :
            cycle.log[N_JOINTS + k] = Ev("robot.step", k, BasicTimeStep, "init")
        /\ Happens("success") = {N_JOINTS + SettleSteps + 1}
        /\ Happens("robot.step") = (N_JOINTS + 1)..(N_JOINTS + SettleSteps)
        /\ \A n \in 1..Len(cycle.log) :
            cycle.log[n].by = "step" => n > N_JOINTS + SettleSteps + 1

\* a serviced request of N angles of which one is outside the actuation range
C5_Witness ==
    /\ cycle.ran /\ cycle.item = "service" /\ Len(cycle.request) = N_JOINTS
    /\ cycle.success
    /\ \E i \in Joints :
        /\ cycle.request[i] > Limit
        /\ cycle.log[i].v = cycle.request[i]

\* C6: component i of the resolver's output is component i of q + dq*dt when
\* that lies within the range, the upper limit when it is above and the lower
\* limit when it is below, whatever the other components are.
C6_SaturationComponentwise ==
    cycle.resolved =>
        \A i \in Joints :
            cycle.out[i] =
                IF Candidate[i] > Limit THEN Limit
                ELSE IF Candidate[i] < -Limit THEN -Limit
                ELSE Candidate[i]

\* one call in which a joint saturates above, one below, and a third moves
\* freely
C6_Witness ==
    /\ cycle.resolved /\ ~cycle.ran
    /\ \E i, j, k \in Joints :
        /\ Candidate[i] > Limit /\ cycle.out[i] = Limit
        /\ Candidate[j] < -Limit /\ cycle.out[j] = -Limit
        /\ cycle.out[k] = Candidate[k] /\ cycle.out[k] # cycle.q[k]

\* C7: for q within range and k0 = 0 the resolver's output is
\* q + pinv(J)*dx*dt clamped componentwise: the null-space term adds nothing.
C7_PureTaskTrackerAtZeroGain ==
    (cycle.resolved /\ InRange(cycle.q) /\ cycle.k0 = 0) =>
        \A i \in Joints :
            cycle.out[i] =
                Saturate(cycle.q[i] + MatVec(pinv(cycle.J), cycle.dx)[i] * cycle.dt)

\* a call at zero gain, within range, with a task velocity that moves a joint
\* through a Jacobian whose rows are not of unit length
C7_Witness ==
    /\ cycle.resolved /\ ~cycle.ran
    /\ InRange(cycle.q) /\ cycle.k0 = 0
    /\ cycle.J = JFull /\ cycle.dx # <<0, 0, 0>>
    /\ \E i \in Joints : cycle.out[i] # cycle.q[i] /\ cycle.out[i] < Limit

\* C8: a cycle in which the end effector's rotation has trace -1 raises
\* nothing, commands all N motors with the clamped resolver output and
\* publishes a pose, whose orientation is w = 0 and undefined x, y, z.  (step
\* keeps nothing of the pose, so the next cycle starts as any other.)
C8_DegeneratePoseDoesNotAbort ==
    (cycle.ran /\ cycle.resolved /\ cycle.trace = -1) =>
        /\ cycle.exc = "none"
        /\ InRange(cycle.out)
        /\ \A i \in Joints :
            /\ Cardinality(Commands(i, "step")) = 1
            /\ \A n \in Commands(i, "step") : cycle.log[n].v = cycle.out[i]
            /\ motors[i] = cycle.out[i]
        /\ cycle.published
        /\ Happens("publish") = {Len(cycle.log)}
        /\ cycle.pose.orientation[4] = Fin(0)
        /\ \A c \in 1..3 : cycle.pose.orientation[c].k # "fin"

\* a cycle with a rotation by 180 degrees that moved the arm
C8_Witness ==
    /\ cycle.ran /\ cycle.resolved /\ cycle.trace = -1
    /\ cycle.published
    /\ cycle.pose.orientation[1] = NaN
    /\ cycle.out # cycle.q

\* C9: with J the zero matrix the resolver's output is q + q0dot*dt clamped
\* componentwise, whatever dx is.
C9_ZeroJacobian ==
    (cycle.resolved /\ cycle.J = JZero) =>
        \A i \in Joints :
            cycle.out[i] = Saturate(cycle.q[i] + Den * cycle.q0dot[i] * cycle.dt)

\* a call with the zero Jacobian, a task velocity and a posture velocity that
\* moves a joint
C9_Witness ==
    /\ cycle.resolved /\ ~cycle.ran
    /\ cycle.J = JZero
    /\ cycle.dx # <<0, 0, 0>>
    /\ \E i \in Joints :
        /\ cycle.q0dot[i] # 0
        /\ cycle.out[i] # cycle.q[i]
        /\ cycle.out[i] < Limit /\ cycle.out[i] > -Limit

\* C10: a request of M < N angles commands motors 1..M only, then settles and
\* reports success; a request of M > N angles commands the N motors, then
\* raises IndexError: no settle wait, success never set.
C10_WrongLengthRequest ==
    (cycle.ran /\ cycle.item = "service") =>
        /\ Len(cycle.request) < N_JOINTS =>
            /\ \A i \in Joints :
                Commands(i, "init") = IF i <= Len(cycle.request) THEN {i} ELSE {}
            /\ \A i \in 1..Len(cycle.request) : cycle.log[i].v = cycle.request[i]
            /\ Happens("robot.step") =
                (Len(cycle.request) + 1)..(Len(cycle.request) + SettleSteps)
            /\ Happens("success") = {Len(cycle.request) + SettleSteps + 1}
            /\ cycle.success /\ cycle.exc = "none"
        /\ Len(cycle.request) > N_JOINTS =>
            /\ \A i \in Joints :
                /\ Commands(i, "init") = {i}
                /\ cycle.log[i].v = cycle.request[i]
                /\ motors[i] = cycle.request[i]
            /\ Len(cycle.log) = N_JOINTS
            /\ cycle.exc = "IndexError"
            /\ Happens("robot.step") = {} /\ Happens("success") = {}
            /\ ~cycle.success /\ ~cycle.resolved

\* a request of N + 1 angles was serviced
C10_Witness ==
    /\ cycle.ran /\ cycle.item = "service"
    /\ Len(cycle.request) = N_JOINTS + 1
    /\ cycle.exc = "IndexError"
    /\ motors = SubSeq(cycle.request, 1, N_JOINTS)

====
